---- MODULE Spec2Model ----
(***************************************************************************)
(* The recording -> transcribe -> reply -> synthesize -> play pipeline of  *)
(* the therapist app: the SpeechRecognitionService singleton (full        *)
(* variant) and the VoiceRecorder component that drives it.                *)
(*                                                                         *)
(* Every handler is an async function.  A handler in flight is a record in *)
(* `tasks`; one step of the model is one JavaScript macrotask: a tap, or   *)
(* the continuation of one handler after the native call it awaits has     *)
(* resolved, run up to its next native call.  The native effect of a call  *)
(* (capture opened, sound loaded, ...) and its outcome are fixed when the  *)
(* call is issued (the native queue is served in call order); the handler  *)
(* sees the outcome only in its continuation.                              *)
(*                                                                         *)
(* Specifications: Spec (the recorder, any number of taps), SpecTaps (at   *)
(* most MaxTaps taps), SpecLive (SpecTaps with every awaited call          *)
(* settling), SpecCleanup (a host that also calls the service's cleanup),  *)
(* SpecScreen (the list handlers of the two screens), SpecBoth (the full   *)
(* and the transcription-only recorder side by side).                      *)
(***************************************************************************)
EXTENDS Integers, Sequences, FiniteSets, TLC

\* ---- bounds ----
MaxTasks == 2      \* handlers in flight at once
MaxHandles == 2    \* capture handles that can be distinguished at once
MaxSounds == 2     \* sounds that can be loaded at once
MaxTaps == 5       \* taps of the user in a behaviour of SpecTaps
Unlimited == 0 - 1  \* taps: no limit

\* ---- values ----
NULL == 0
NoError == "null"
UNDEF == "undefined"
PENDING == "pending"
FAILED == "failed"
NoResponse == [text |-> "null", audioUri |-> "null"]

TRANSCRIPTION_FAILED == "Transcription failed"
RECORDING_FAILED == "Recording failed"
INIT_FAILED == "Initialization failed: Error: Microphone permission denied"
PROCESS_FAILED == "Failed to process therapy conversation. Please try again."
PLAY_FAILED == "Failed to play audio response."
\* the message of the TypeError of calling trim on undefined
TRIM_FAILED == "Cannot read property 'trim' of undefined"
CREATE_REFUSED == "createAsync rejected"   \* the error of the recorder refusing
DEFAULT_REPLY == "I'm here to listen. Could you tell me more about what's on your mind?"

Handles == 1..MaxHandles
Sounds == 1..MaxSounds
\* what the transcription endpoint can put in result.text
TranscriptTexts == {"t1", UNDEF}
\* what the chat endpoint can put in message.content
ChatContents == {"", "r1"}
\* file references textToSpeech can produce
AudioRefs == {"a1"}

VARIABLES
  state,            \* RecorderState of the VoiceRecorder component (without
                    \* currentRecording, which is written and never read)
  recording,        \* SpeechRecognitionService.recording (handle or NULL)
  playbackObject,   \* SpeechRecognitionService.playbackObject (sound or NULL)
  isInitialized,    \* SpeechRecognitionService.isInitialized
  openCaptures,     \* capture handles the recorder holds open
  sounds,           \* the sounds that are loaded (created and not unloaded)
  tasks,            \* handlers in flight, oldest first
  taps,             \* taps the user may still make (Unlimited: any number)
  ended,            \* the turn (stopRecording handler) that ended in the step just taken
  transcriptHistory,    \* SpeechScreen.transcriptHistory (transcription screen)
  conversationHistory,  \* SpeechScreen.conversationHistory (conversation screen)
  simple                \* the transcription-only recorder with its own service
                        \* and recorder hardware: state, recording,
                        \* isInitialized, openCaptures, tasks

vars == <<state, recording, playbackObject, isInitialized, openCaptures,
          sounds, tasks, taps, ended, transcriptHistory, conversationHistory,
          simple>>

\* the lists of the screens around the recorder
screenVars == <<transcriptHistory, conversationHistory>>

\* the recorder and its service
recorderVars == <<state, recording, playbackObject, isInitialized, openCaptures,
                  sounds, tasks, taps, ended>>

svcVars == <<recording, playbackObject, isInitialized>>

\* ---- helpers ----
RemoveAt(s, i) == SubSeq(s, 1, i - 1) \o SubSeq(s, i + 1, Len(s))

URI(h) == <<"rec1", "rec2", "rec3", "rec4">>[h]

Truthy(s) == s \notin {"", UNDEF, "null"}

NewTask(k, p) ==
  [kind |-> k, pc |-> p, ok |-> TRUE, h |-> NULL, snd |-> NULL, v |-> "",
   uri |-> "", tr |-> "", text |-> "", audio |-> "", calls |-> <<>>]

\* no turn ended in the step just taken
\* (notified: calls of onConversationUpdate it made, with user and reply)
NoTurn == [uri |-> "", calls |-> <<>>, err |-> NoError, notified |-> 0,
           user |-> "", reply |-> ""]

Call(st, in) == [st |-> st, in |-> in, out |-> PENDING]

\* what the settled call of task t came back with
Result(t) == IF t.ok THEN t.v ELSE FAILED

\* the log with the result of its last call filled in
Returned(calls, out) == [calls EXCEPT ![Len(calls)].out = out]

isProcessingAny ==
  state.isProcessing \/ state.isGeneratingResponse \/ state.isPlayingResponse

\* the state the recorder shows (getStatusText), Errored when idle with an error
PipelineState ==
  IF state.isRecording THEN "Recording"
  ELSE IF state.isProcessing THEN "Transcribing"
  ELSE IF state.isGeneratingResponse THEN "GeneratingReply"
  ELSE IF state.isPlayingResponse THEN "Speaking"
  ELSE IF state.error # NoError THEN "Errored"
  ELSE "Idle"

TypeOK ==
  /\ state.isRecording \in BOOLEAN
  /\ recording \in Handles \cup {NULL}
  /\ playbackObject \in Sounds \cup {NULL}
  /\ isInitialized \in BOOLEAN
  /\ openCaptures \subseteq Handles
  /\ sounds \subseteq Sounds
  /\ Len(tasks) <= MaxTasks

\* ---- construction and mount ----
\* the component's initial state, the service's initial fields, and the
\* initialize effect issued on mount, awaiting the permission request
Mounted ==
  /\ state = [isRecording |-> FALSE, isProcessing |-> FALSE,
              isGeneratingResponse |-> FALSE, isPlayingResponse |-> FALSE,
              transcript |-> "", therapyResponse |-> NoResponse,
              error |-> NoError, hasPermission |-> FALSE]
  /\ recording = NULL
  /\ playbackObject = NULL
  /\ isInitialized = FALSE
  /\ openCaptures = {}
  /\ sounds = {}
  /\ \E g \in BOOLEAN :
       /\ tasks = <<[NewTask("init", "in_perm") EXCEPT !.ok = g]>>
       /\ simple = [state |-> [isRecording |-> FALSE, isProcessing |-> FALSE,
                               transcript |-> "", error |-> NoError,
                               hasPermission |-> FALSE],
                    recording |-> NULL, isInitialized |-> FALSE,
                    openCaptures |-> {},
                    tasks |-> <<[NewTask("init", "in_perm") EXCEPT !.ok = g]>>]
  /\ ended = NoTurn
  /\ transcriptHistory = <<>>
  /\ conversationHistory = <<>>

Init == Mounted /\ taps = Unlimited

InitTaps == Mounted /\ taps = MaxTaps

\* the user taps a button
Tap == taps # 0 /\ taps' = (IF taps > 0 THEN taps - 1 ELSE taps)

\* VoiceRecorder.initialize after SpeechService.initialize settled
InitPerm(i) ==
  LET t == tasks[i] IN
  /\ t.pc = "in_perm"
  /\ taps' = taps
  /\ IF t.ok
       THEN /\ isInitialized' = TRUE
            /\ state' = [state EXCEPT !.hasPermission = TRUE, !.error = NoError]
       ELSE /\ isInitialized' = isInitialized
            /\ state' = [state EXCEPT !.hasPermission = FALSE, !.error = INIT_FAILED]
  /\ tasks' = RemoveAt(tasks, i)
  /\ ended' = NoTurn
  /\ UNCHANGED <<recording, playbackObject, openCaptures, sounds>>

\* ---- startRecording ----
\* the catch block of SpeechService.startRecording: whatever error was
\* caught, the error thrown on is RECORDING_FAILED
StartError(error) == RECORDING_FAILED

\* the catch block of VoiceRecorder.startRecording, after the service
\* caught `error`
StartFailed(i, error) ==
  /\ state' = [state EXCEPT !.isRecording = FALSE, !.error = StartError(error)]
  /\ tasks' = RemoveAt(tasks, i)

\* TapStart whose initialize requests the permission on every call
TapStartAlwaysRequesting ==
  /\ Tap
  /\ Len(tasks) < MaxTasks
  /\ ~isProcessingAny
  /\ ~state.isRecording
  /\ state' = [state EXCEPT !.isRecording = TRUE, !.error = NoError,
                            !.transcript = "", !.therapyResponse = NoResponse]
  /\ \E g \in BOOLEAN :
       tasks' = Append(tasks, [NewTask("start", "st_perm") EXCEPT !.ok = g])
  /\ ended' = NoTurn
  /\ UNCHANGED <<svcVars, openCaptures, sounds>>

\* tap on the main circle while not recording: toggle -> startRecording,
\* up to the first native call of SpeechService.startRecording
TapStart ==
  /\ Tap
  /\ Len(tasks) < MaxTasks
  /\ ~isProcessingAny
  /\ ~state.isRecording
  /\ state' = [state EXCEPT !.isRecording = TRUE, !.error = NoError,
                            !.transcript = "", !.therapyResponse = NoResponse]
  /\ IF isInitialized
       THEN tasks' = Append(tasks, NewTask("start", "st_mode"))
       ELSE \E g \in BOOLEAN :
              tasks' = Append(tasks, [NewTask("start", "st_perm") EXCEPT !.ok = g])
  /\ ended' = NoTurn
  /\ UNCHANGED <<svcVars, openCaptures, sounds>>

\* the permission request of initialize settled
StartPerm(i) ==
  LET t == tasks[i] IN
  /\ t.pc = "st_perm"
  /\ taps' = taps
  /\ IF t.ok
       THEN /\ isInitialized' = TRUE
            /\ tasks' = [tasks EXCEPT ![i].pc = "st_mode"]
            /\ state' = state
       ELSE /\ isInitialized' = isInitialized
            /\ StartFailed(i, INIT_FAILED)
  /\ ended' = NoTurn
  /\ UNCHANGED <<recording, playbackObject, openCaptures, sounds>>

\* a handle nothing refers to any more
FreeHandles ==
  {h \in Handles : /\ h \notin openCaptures
                   /\ h # recording
                   /\ \A j \in DOMAIN tasks : tasks[j].h # h}

\* createAsync of a recorder that does not refuse a second capture
CreateRecordingUnguarded(open, free) ==
  IF free # {}
    THEN LET h == CHOOSE x \in free : \A y \in free : x <= y
         IN [ok |-> TRUE, h |-> h, open |-> open \cup {h}]
    ELSE [ok |-> FALSE, h |-> NULL, open |-> open]

\* Audio.Recording.createAsync: the recorder refuses while a capture is open
CreateRecording(open, free) ==
  IF open = {} /\ free # {}
    THEN LET h == CHOOSE x \in free : \A y \in free : x <= y
         IN [ok |-> TRUE, h |-> h, open |-> open \cup {h}]
    ELSE [ok |-> FALSE, h |-> NULL, open |-> open]

\* setAudioModeAsync settled: Audio.Recording.createAsync is issued
StartMode(i) ==
  LET t == tasks[i]
      r == CreateRecording(openCaptures, FreeHandles) IN
  /\ t.pc = "st_mode"
  /\ taps' = taps
  /\ openCaptures' = r.open
  /\ tasks' = [tasks EXCEPT ![i].pc = "st_create", ![i].ok = r.ok, ![i].h = r.h]
  /\ ended' = NoTurn
  /\ UNCHANGED <<state, svcVars, sounds>>

\* StartCreate whose catch block also drops the handle the service holds
StartCreateClearing(i) ==
  LET t == tasks[i] IN
  /\ t.pc = "st_create"
  /\ taps' = taps
  /\ IF t.ok
       THEN /\ recording' = t.h
            /\ tasks' = RemoveAt(tasks, i)
            /\ state' = state
       ELSE /\ recording' = NULL
            /\ StartFailed(i, CREATE_REFUSED)
  /\ ended' = NoTurn
  /\ UNCHANGED <<playbackObject, isInitialized, openCaptures, sounds>>

\* createAsync settled: this.recording = recording, or the catch blocks
StartCreate(i) ==
  LET t == tasks[i] IN
  /\ t.pc = "st_create"
  /\ taps' = taps
  /\ IF t.ok
       THEN /\ recording' = t.h
            /\ tasks' = RemoveAt(tasks, i)
            /\ state' = state
       ELSE /\ recording' = recording
            /\ StartFailed(i, CREATE_REFUSED)
  /\ ended' = NoTurn
  /\ UNCHANGED <<playbackObject, isInitialized, openCaptures, sounds>>

\* ---- stopRecording: one turn ----
\* the catch block of VoiceRecorder.stopRecording: the turn ends in error
TurnFailed(i, msg) ==
  /\ state' = [state EXCEPT !.isRecording = FALSE, !.isProcessing = FALSE,
                            !.isGeneratingResponse = FALSE,
                            !.isPlayingResponse = FALSE, !.error = msg]
  /\ ended' = [NoTurn EXCEPT !.uri = tasks[i].uri,
                              !.calls = IF tasks[i].calls = <<>> THEN <<>>
                                        ELSE Returned(tasks[i].calls, FAILED),
                              !.err = msg]
  /\ tasks' = RemoveAt(tasks, i)

\* the stages of a turn: capture is SpeechService.stopRecording
Stages == {"capture", "transcribe", "reply", "synthesize", "play"}

\* the message that reaches VoiceRecorder.stopRecording's catch block when
\* stage st fails: each service method replaces what it caught by its own
\* message, and processTherapyConversation replaces the messages of
\* getChatResponse and textToSpeech by one of its own
StageError(st) ==
  CASE st = "capture" -> RECORDING_FAILED
    [] st = "transcribe" -> TRANSCRIPTION_FAILED
    [] st = "reply" -> PROCESS_FAILED
    [] st = "synthesize" -> PROCESS_FAILED
    [] st = "play" -> PLAY_FAILED

\* Recording.stopAndUnloadAsync on handle h: the recorder is unloaded whether
\* or not stopping reported an error; a handle already unloaded is refused
StopAndUnload(h, open) ==
  IF h \in open
    THEN {[ok |-> b, open |-> open \ {h}] : b \in BOOLEAN}
    ELSE {[ok |-> FALSE, open |-> open]}

\* tap on the main circle while recording: toggle -> stopRecording, up to
\* the first native call of SpeechService.stopRecording
TapStop ==
  /\ Tap
  /\ ~isProcessingAny
  /\ state.isRecording
  /\ IF recording = NULL
       THEN \* "No active recording": rejected before anything is awaited
            /\ state' = [state EXCEPT !.isRecording = FALSE, !.isProcessing = FALSE,
                                      !.isGeneratingResponse = FALSE,
                                      !.isPlayingResponse = FALSE,
                                      !.error = RECORDING_FAILED]
            /\ ended' = [NoTurn EXCEPT !.err = RECORDING_FAILED]
            /\ UNCHANGED <<tasks, openCaptures>>
       ELSE /\ Len(tasks) < MaxTasks
            /\ state' = [state EXCEPT !.isRecording = FALSE, !.isProcessing = TRUE]
            /\ \E r \in StopAndUnload(recording, openCaptures) :
                 /\ openCaptures' = r.open
                 /\ tasks' = Append(tasks, [NewTask("turn", "tu_stop") EXCEPT !.ok = r.ok])
            /\ ended' = NoTurn
  /\ UNCHANGED <<svcVars, sounds>>

\* TurnStop that goes on to getURI although stopAndUnloadAsync was refused
TurnStopIgnoringFailure(i) ==
  LET t == tasks[i] IN
  /\ t.pc = "tu_stop"
  /\ taps' = taps
  /\ \/ /\ recording = NULL
        /\ TurnFailed(i, StageError("capture"))
     \/ /\ recording # NULL
        /\ \E uriOk \in BOOLEAN :
             IF uriOk
               THEN /\ tasks' = [tasks EXCEPT ![i].pc = "tu_status",
                                              ![i].uri = URI(recording)]
                    /\ UNCHANGED state
                    /\ ended' = NoTurn
               ELSE TurnFailed(i, StageError("capture"))
  /\ UNCHANGED <<svcVars, openCaptures, sounds>>

\* stopAndUnloadAsync settled: getURI, then getStatusAsync is issued
TurnStop(i) ==
  LET t == tasks[i] IN
  /\ t.pc = "tu_stop"
  /\ taps' = taps
  /\ \/ /\ ~t.ok \/ recording = NULL
        /\ TurnFailed(i, StageError("capture"))
     \/ /\ t.ok /\ recording # NULL
        /\ \E uriOk \in BOOLEAN :
             IF uriOk
               THEN /\ tasks' = [tasks EXCEPT ![i].pc = "tu_status",
                                              ![i].uri = URI(recording)]
                    /\ UNCHANGED state
                    /\ ended' = NoTurn
               ELSE TurnFailed(i, StageError("capture"))
  /\ UNCHANGED <<svcVars, openCaptures, sounds>>

\* what a network call can come back with: a failure, or one of the values
Outcomes(values) ==
  {[ok |-> FALSE, v |-> ""]} \cup {[ok |-> TRUE, v |-> x] : x \in values}

\* getStatusAsync settled: this.recording = null, the recording is returned
\* and handed to transcribeWithWhisper
TurnStatus(i) ==
  LET t == tasks[i] IN
  /\ t.pc = "tu_status"
  /\ taps' = taps
  /\ recording' = NULL
  /\ state' = state
  /\ \E r \in Outcomes(TranscriptTexts) :
       tasks' = [tasks EXCEPT ![i].pc = "tu_transcribe", ![i].ok = r.ok,
                              ![i].v = r.v,
                              ![i].calls = Append(t.calls, Call("transcribe", t.uri))]
  /\ ended' = NoTurn
  /\ UNCHANGED <<playbackObject, isInitialized, openCaptures, sounds>>

\* TurnTranscribe without the throw: the turn goes on after a failed transcription
TurnTranscribeIgnoringFailure(i) ==
  LET t == tasks[i] IN
  /\ t.pc = "tu_transcribe"
  /\ taps' = taps
  /\ state' = [state EXCEPT !.transcript = t.v, !.isProcessing = FALSE,
                            !.isGeneratingResponse = TRUE]
  /\ \E r \in Outcomes(ChatContents) :
       tasks' = [tasks EXCEPT ![i].pc = "tu_chat", ![i].ok = r.ok,
                              ![i].v = r.v, ![i].tr = t.v,
                              ![i].calls = Append(Returned(t.calls, Result(t)),
                                                  Call("reply", t.v))]
  /\ ended' = NoTurn
  /\ UNCHANGED <<svcVars, openCaptures, sounds>>

\* TurnTranscribe that tries the transcription once more after a failure
TurnTranscribeRetrying(i) ==
  LET t == tasks[i] IN
  /\ t.pc = "tu_transcribe"
  /\ taps' = taps
  /\ IF t.ok
       THEN /\ state' = [state EXCEPT !.transcript = t.v, !.isProcessing = FALSE,
                                      !.isGeneratingResponse = TRUE]
            /\ \E r \in Outcomes(ChatContents) :
                 tasks' = [tasks EXCEPT ![i].pc = "tu_chat", ![i].ok = r.ok,
                                        ![i].v = r.v, ![i].tr = t.v,
                                        ![i].calls = Append(Returned(t.calls, Result(t)),
                                                            Call("reply", t.v))]
            /\ ended' = NoTurn
       ELSE IF Len(t.calls) < 2
         THEN /\ \E r \in Outcomes(TranscriptTexts) :
                   tasks' = [tasks EXCEPT ![i].ok = r.ok, ![i].v = r.v,
                                          ![i].calls = Append(Returned(t.calls, FAILED),
                                                              Call("transcribe", t.uri))]
              /\ UNCHANGED state
              /\ ended' = NoTurn
         ELSE TurnFailed(i, StageError("transcribe"))
  /\ UNCHANGED <<svcVars, openCaptures, sounds>>

\* transcribeWithWhisper settled: the transcript goes to
\* processTherapyConversation -> getChatResponse
TurnTranscribe(i) ==
  LET t == tasks[i] IN
  /\ t.pc = "tu_transcribe"
  /\ taps' = taps
  /\ IF t.ok
       THEN /\ state' = [state EXCEPT !.transcript = t.v, !.isProcessing = FALSE,
                                      !.isGeneratingResponse = TRUE]
            /\ \E r \in Outcomes(ChatContents) :
                 tasks' = [tasks EXCEPT ![i].pc = "tu_chat", ![i].ok = r.ok,
                                        ![i].v = r.v, ![i].tr = t.v,
                                        ![i].calls = Append(Returned(t.calls, Result(t)),
                                                            Call("reply", t.v))]
            /\ ended' = NoTurn
       ELSE TurnFailed(i, StageError("transcribe"))
  /\ UNCHANGED <<svcVars, openCaptures, sounds>>

\* getChatResponse's return value: the content, or the stock reply when empty
ReplyText(content) == IF content = "" THEN DEFAULT_REPLY ELSE content

\* TurnChat without the throw: textToSpeech is called after a failed reply
TurnChatIgnoringFailure(i) ==
  LET t == tasks[i]
      therapyText == IF t.ok THEN ReplyText(t.v) ELSE FAILED IN
  /\ t.pc = "tu_chat"
  /\ taps' = taps
  /\ \E r \in Outcomes(AudioRefs) :
       tasks' = [tasks EXCEPT ![i].pc = "tu_tts", ![i].ok = r.ok,
                              ![i].v = r.v, ![i].text = therapyText,
                              ![i].calls = Append(Returned(t.calls, therapyText),
                                                  Call("synthesize", therapyText))]
  /\ UNCHANGED state
  /\ ended' = NoTurn
  /\ UNCHANGED <<svcVars, openCaptures, sounds>>

\* TurnChat that hands the transcript, not the reply text, to textToSpeech
TurnChatSpeakingTranscript(i) ==
  LET t == tasks[i]
      therapyText == IF t.ok THEN ReplyText(t.v) ELSE FAILED IN
  /\ t.pc = "tu_chat"
  /\ taps' = taps
  /\ IF t.ok
       THEN /\ \E r \in Outcomes(AudioRefs) :
                 tasks' = [tasks EXCEPT ![i].pc = "tu_tts", ![i].ok = r.ok,
                                        ![i].v = r.v, ![i].text = therapyText,
                                        ![i].calls = Append(Returned(t.calls, therapyText),
                                                            Call("synthesize", t.tr))]
            /\ UNCHANGED state
            /\ ended' = NoTurn
       ELSE TurnFailed(i, StageError("reply"))
  /\ UNCHANGED <<svcVars, openCaptures, sounds>>

\* getChatResponse settled: the reply text goes to textToSpeech
TurnChat(i) ==
  LET t == tasks[i]
      therapyText == IF t.ok THEN ReplyText(t.v) ELSE FAILED IN
  /\ t.pc = "tu_chat"
  /\ taps' = taps
  /\ IF t.ok
       THEN /\ \E r \in Outcomes(AudioRefs) :
                 tasks' = [tasks EXCEPT ![i].pc = "tu_tts", ![i].ok = r.ok,
                                        ![i].v = r.v, ![i].text = therapyText,
                                        ![i].calls = Append(Returned(t.calls, therapyText),
                                                            Call("synthesize", therapyText))]
            /\ UNCHANGED state
            /\ ended' = NoTurn
       ELSE TurnFailed(i, StageError("reply"))
  /\ UNCHANGED <<svcVars, openCaptures, sounds>>

\* ---- playAudio / stopAudio of the service ----
\* Sound.stopAsync on sound s: refused when s is no longer loaded
StopSound(s, snds) ==
  [ok |-> s \in snds, sounds |-> snds]

\* SpeechService.stopAudio up to its first await: with a playbackObject it
\* issues stopAsync (pc sa_stop), without one it returns at once (pc ret)
StopAudioEntry(t) ==
  IF playbackObject = NULL
    THEN [task |-> t, sounds |-> sounds, returned |-> TRUE]
    ELSE LET r == StopSound(playbackObject, sounds)
         IN [task |-> [t EXCEPT !.pc = "sa_stop", !.ok = r.ok],
             sounds |-> r.sounds, returned |-> FALSE]

\* SpeechService.playAudio up to its first native call: stopAudio first,
\* and when that returns at once, setAudioModeAsync (pc pl_mode)
PlayAudioEntry(t, audioUri) ==
  LET t1 == [t EXCEPT !.audio = audioUri]
      e == StopAudioEntry(t1)
  IN IF e.returned THEN [e EXCEPT !.task.pc = "pl_mode"] ELSE e

\* what follows the return of a stopAudio that had to await, by caller:
\* playAudio goes on to setAudioModeAsync, VoiceRecorder.stopAudio clears
\* isPlayingResponse, clearConversation did not wait for it
StopAudioReturned(i) ==
  LET t == tasks[i] IN
  /\ IF t.kind \in {"turn", "replay"}
       THEN tasks' = [tasks EXCEPT ![i].pc = "pl_mode"]
       ELSE tasks' = RemoveAt(tasks, i)
  /\ IF t.kind = "stopAudio"
       THEN state' = [state EXCEPT !.isPlayingResponse = FALSE]
       ELSE state' = state

\* stopAsync settled: unloadAsync is issued on whatever this.playbackObject
\* is now; an error (also that of reading null) is logged and swallowed
SaStop(i) ==
  LET t == tasks[i] IN
  /\ t.pc = "sa_stop"
  /\ taps' = taps
  /\ IF t.ok /\ playbackObject # NULL
       THEN /\ sounds' = sounds \ {playbackObject}
            /\ tasks' = [tasks EXCEPT ![i].pc = "sa_unload"]
            /\ state' = state
       ELSE /\ sounds' = sounds
            /\ StopAudioReturned(i)
  /\ ended' = NoTurn
  /\ UNCHANGED <<svcVars, openCaptures>>

\* SaUnload of a stopAudio that also unloads the recorder
SaUnloadClosing(i) ==
  LET t == tasks[i] IN
  /\ t.pc = "sa_unload"
  /\ taps' = taps
  /\ playbackObject' = NULL
  /\ openCaptures' = {}
  /\ StopAudioReturned(i)
  /\ ended' = NoTurn
  /\ UNCHANGED <<recording, isInitialized, sounds>>

\* unloadAsync settled: this.playbackObject = null
SaUnload(i) ==
  LET t == tasks[i] IN
  /\ t.pc = "sa_unload"
  /\ taps' = taps
  /\ playbackObject' = NULL
  /\ StopAudioReturned(i)
  /\ ended' = NoTurn
  /\ UNCHANGED <<recording, isInitialized, openCaptures, sounds>>

\* a sound nothing refers to any more
FreeSounds ==
  {s \in Sounds : /\ s \notin sounds
                  /\ s # playbackObject
                  /\ \A j \in DOMAIN tasks : tasks[j].snd # s}

\* Audio.Sound.createAsync: loads a new sound, or fails
CreateSound(snds, free) ==
  {[ok |-> FALSE, snd |-> NULL, sounds |-> snds]} \cup
  (IF free = {} THEN {}
   ELSE LET s == CHOOSE x \in free : \A y \in free : x <= y
        IN {[ok |-> TRUE, snd |-> s, sounds |-> snds \cup {s}]})

\* setAudioModeAsync settled: Audio.Sound.createAsync is issued
PlayMode(i) ==
  LET t == tasks[i] IN
  /\ t.pc = "pl_mode"
  /\ taps' = taps
  /\ \E r \in CreateSound(sounds, FreeSounds) :
       /\ sounds' = r.sounds
       /\ tasks' = [tasks EXCEPT ![i].pc = "pl_create", ![i].ok = r.ok,
                                 ![i].snd = r.snd]
  /\ ended' = NoTurn
  /\ UNCHANGED <<state, svcVars, openCaptures>>

\* the catch block of the caller of playAudio: the turn's, or replayResponse's
PlayFailed(i) ==
  IF tasks[i].kind = "turn"
    THEN TurnFailed(i, StageError("play"))
    ELSE /\ state' = [state EXCEPT !.isPlayingResponse = FALSE, !.error = PLAY_FAILED]
         /\ tasks' = RemoveAt(tasks, i)
         /\ ended' = NoTurn

\* createAsync settled: this.playbackObject = sound, playAsync is issued
PlayCreate(i) ==
  LET t == tasks[i] IN
  /\ t.pc = "pl_create"
  /\ taps' = taps
  /\ IF t.ok
       THEN /\ playbackObject' = t.snd
            /\ \E played \in BOOLEAN :
                 /\ sounds' = sounds
                 /\ tasks' = [tasks EXCEPT ![i].pc = "pl_play", ![i].ok = played,
                                           ![i].snd = NULL]
            /\ UNCHANGED state
            /\ ended' = NoTurn
       ELSE /\ PlayFailed(i)
            /\ UNCHANGED <<playbackObject, sounds>>
  /\ UNCHANGED <<recording, isInitialized, openCaptures>>

\* String.prototype.trim, on the strings of the model
Trim(s) == IF s \in {"", " "} THEN "" ELSE s

\* the screen's handleConversationUpdate throws: userMessage.trim() of an
\* undefined transcript (therapistResponse is tested only after it)
ConversationUpdateThrows(userMessage, therapistResponse) ==
  \/ userMessage = UNDEF
  \/ Truthy(Trim(userMessage)) /\ therapistResponse = UNDEF

\* playAsync settled: playAudio returns; the turn clears isPlayingResponse
\* and calls onConversationUpdate, whose exception lands in the turn's catch
\* block; replayResponse clears isPlayingResponse
PlayPlay(i) ==
  LET t == tasks[i]
      thrown == t.kind = "turn" /\ ConversationUpdateThrows(t.tr, t.text) IN
  /\ t.pc = "pl_play"
  /\ taps' = taps
  /\ IF t.ok
       THEN /\ state' = IF thrown
                          THEN [state EXCEPT !.isRecording = FALSE,
                                             !.isProcessing = FALSE,
                                             !.isGeneratingResponse = FALSE,
                                             !.isPlayingResponse = FALSE,
                                             !.error = TRIM_FAILED]
                          ELSE [state EXCEPT !.isPlayingResponse = FALSE]
            /\ tasks' = RemoveAt(tasks, i)
            /\ ended' = IF t.kind = "turn"
                          THEN [NoTurn EXCEPT !.uri = t.uri,
                                  !.calls = Returned(t.calls, "played"),
                                  !.err = IF thrown THEN TRIM_FAILED ELSE NoError,
                                  !.notified = 1, !.user = t.tr, !.reply = t.text]
                          ELSE NoTurn
       ELSE PlayFailed(i)
  /\ UNCHANGED <<svcVars, openCaptures, sounds>>

\* textToSpeech settled: the response is stored and played
TurnTts(i) ==
  LET t == tasks[i]
      therapyResponse == [text |-> t.text, audioUri |-> t.v]
      t1 == [t EXCEPT !.calls = Append(Returned(t.calls, Result(t)),
                                       Call("play", therapyResponse.audioUri))]
      e == PlayAudioEntry(t1, therapyResponse.audioUri) IN
  /\ t.pc = "tu_tts"
  /\ taps' = taps
  /\ IF t.ok
       THEN /\ state' = [state EXCEPT !.therapyResponse = therapyResponse,
                                      !.isGeneratingResponse = FALSE,
                                      !.isPlayingResponse = TRUE,
                                      !.error = NoError]
            /\ tasks' = [tasks EXCEPT ![i] = e.task]
            /\ sounds' = e.sounds
            /\ ended' = NoTurn
       ELSE /\ TurnFailed(i, StageError("synthesize"))
            /\ sounds' = sounds
  /\ UNCHANGED <<svcVars, openCaptures>>

\* ---- the other buttons ----
\* tap on the play button while not playing: replayResponse
TapReplay ==
  /\ Tap
  /\ Len(tasks) < MaxTasks
  /\ state.therapyResponse # NoResponse
  /\ ~state.isPlayingResponse
  /\ Truthy(state.therapyResponse.audioUri)
  /\ LET e == PlayAudioEntry(NewTask("replay", "pl_mode"),
                             state.therapyResponse.audioUri) IN
       /\ tasks' = Append(tasks, e.task)
       /\ sounds' = e.sounds
  /\ state' = [state EXCEPT !.isPlayingResponse = TRUE, !.error = NoError]
  /\ ended' = NoTurn
  /\ UNCHANGED <<svcVars, openCaptures>>

\* tap on the play button while playing: VoiceRecorder.stopAudio
TapStopAudio ==
  /\ Tap
  /\ state.therapyResponse # NoResponse
  /\ state.isPlayingResponse
  /\ LET e == StopAudioEntry(NewTask("stopAudio", "sa_stop")) IN
       IF e.returned
         THEN /\ state' = [state EXCEPT !.isPlayingResponse = FALSE]
              /\ UNCHANGED <<tasks, sounds>>
         ELSE /\ Len(tasks) < MaxTasks
              /\ tasks' = Append(tasks, e.task)
              /\ sounds' = e.sounds
              /\ state' = state
  /\ ended' = NoTurn
  /\ UNCHANGED <<svcVars, openCaptures>>

\* tap on New Session: clearConversation; stopAudio is not awaited
TapClear ==
  /\ Tap
  /\ Truthy(state.transcript) \/ state.therapyResponse # NoResponse
  /\ ~isProcessingAny
  /\ LET e == StopAudioEntry(NewTask("clear", "sa_stop")) IN
       IF e.returned
         THEN UNCHANGED <<tasks, sounds>>
         ELSE /\ Len(tasks) < MaxTasks
              /\ tasks' = Append(tasks, e.task)
              /\ sounds' = e.sounds
  /\ state' = [state EXCEPT !.transcript = "", !.therapyResponse = NoResponse,
                            !.error = NoError, !.isPlayingResponse = FALSE]
  /\ ended' = NoTurn
  /\ UNCHANGED <<svcVars, openCaptures>>

\* ---- cleanup of the service ----
\* the stopAudio call of cleanup returned: this.isInitialized = false
CleanupDone(i) ==
  /\ isInitialized' = FALSE
  /\ tasks' = IF i = NULL THEN tasks ELSE RemoveAt(tasks, i)

\* the stopAudio call of cleanup up to its first await: t is the cleanup, i
\* its place in tasks (NULL: not in flight yet)
CleanupStopAudio(t, i) ==
  LET e == StopAudioEntry(t) IN
  IF e.returned
    THEN /\ CleanupDone(i)
         /\ sounds' = sounds
    ELSE /\ isInitialized' = isInitialized
         /\ sounds' = e.sounds
         /\ tasks' = IF i = NULL THEN Append(tasks, [e.task EXCEPT !.pc = "cl_sa_stop"])
                     ELSE [tasks EXCEPT ![i] = [e.task EXCEPT !.pc = "cl_sa_stop"]]

\* the host calls SpeechService.cleanup: with a recording held,
\* stopAndUnloadAsync is issued on it, without one stopAudio is called
CallCleanup ==
  /\ Tap
  /\ Len(tasks) < MaxTasks
  /\ IF recording # NULL
       THEN /\ \E r \in StopAndUnload(recording, openCaptures) :
                 /\ openCaptures' = r.open
                 /\ tasks' = Append(tasks, [NewTask("cleanup", "cl_stop") EXCEPT !.ok = r.ok])
            /\ UNCHANGED <<isInitialized, sounds>>
       ELSE /\ CleanupStopAudio(NewTask("cleanup", "cl_sa_stop"), NULL)
            /\ openCaptures' = openCaptures
  /\ ended' = NoTurn
  /\ UNCHANGED <<state, recording, playbackObject>>

\* stopAndUnloadAsync of cleanup settled: this.recording = null and stopAudio
\* is called, or the catch block logs the error and cleanup returns
ClStop(i) ==
  LET t == tasks[i] IN
  /\ t.pc = "cl_stop"
  /\ taps' = taps
  /\ IF t.ok
       THEN /\ recording' = NULL
            /\ CleanupStopAudio(t, i)
       ELSE /\ tasks' = RemoveAt(tasks, i)
            /\ UNCHANGED <<recording, isInitialized, sounds>>
  /\ ended' = NoTurn
  /\ UNCHANGED <<state, playbackObject, openCaptures>>

\* stopAsync of cleanup's stopAudio settled: unloadAsync is issued, or the
\* error is swallowed and stopAudio returns
ClSaStop(i) ==
  LET t == tasks[i] IN
  /\ t.pc = "cl_sa_stop"
  /\ taps' = taps
  /\ IF t.ok /\ playbackObject # NULL
       THEN /\ sounds' = sounds \ {playbackObject}
            /\ tasks' = [tasks EXCEPT ![i].pc = "cl_sa_unload"]
            /\ isInitialized' = isInitialized
       ELSE /\ sounds' = sounds
            /\ CleanupDone(i)
  /\ ended' = NoTurn
  /\ UNCHANGED <<state, recording, playbackObject, openCaptures>>

\* unloadAsync of cleanup's stopAudio settled: this.playbackObject = null,
\* stopAudio returns
ClSaUnload(i) ==
  LET t == tasks[i] IN
  /\ t.pc = "cl_sa_unload"
  /\ taps' = taps
  /\ playbackObject' = NULL
  /\ CleanupDone(i)
  /\ ended' = NoTurn
  /\ UNCHANGED <<state, recording, openCaptures, sounds>>

\* ---- the screens around the recorder ----
\* The recorder reads nothing of the screen's lists, and its specifications
\* leave them as they are; the handlers the screens pass to it are applied
\* here to every argument a recorder can hand them.
TRANSCRIPTS_KEPT == 10
CONVERSATIONS_KEPT == 5

\* transcripts a recorder can pass on: texts, a blank text, and undefined
ScreenTranscripts == {"t1", "t2", " ", UNDEF}
\* reply texts a recorder can pass on (getChatResponse replaces only "")
ScreenReplies == {"r1", " "}

\* Array.prototype.slice(0, n)
Slice(s, n) == SubSeq(s, 1, IF Len(s) < n THEN Len(s) ELSE n)

\* a ConversationEntry, without the id and timestamp taken from the clock
ConversationEntry(userMessage, therapistResponse) ==
  [userMessage |-> userMessage, therapistResponse |-> therapistResponse]

\* transcription screen: the recorder's onTranscriptReceived; trim of an
\* undefined transcript throws before the list is touched
handleTranscriptReceived(transcript) ==
  /\ transcriptHistory' =
       IF transcript # UNDEF /\ Truthy(Trim(transcript))
         THEN Slice(<<transcript>> \o transcriptHistory, TRANSCRIPTS_KEPT)
         ELSE transcriptHistory
  /\ UNCHANGED <<conversationHistory, recorderVars, simple>>

\* transcription screen: clearHistory
clearTranscriptHistory ==
  /\ transcriptHistory' = <<>>
  /\ UNCHANGED <<conversationHistory, recorderVars, simple>>

\* handleConversationUpdate that puts the new entry last
handleConversationUpdateAppending(userMessage, therapistResponse) ==
  /\ conversationHistory' =
       IF /\ ~ConversationUpdateThrows(userMessage, therapistResponse)
          /\ Truthy(Trim(userMessage)) /\ Truthy(Trim(therapistResponse))
         THEN Slice(conversationHistory
                      \o <<ConversationEntry(userMessage, therapistResponse)>>,
                    CONVERSATIONS_KEPT)
         ELSE conversationHistory
  /\ UNCHANGED <<transcriptHistory, recorderVars, simple>>

\* conversation screen: the recorder's onConversationUpdate
handleConversationUpdate(userMessage, therapistResponse) ==
  /\ conversationHistory' =
       IF /\ ~ConversationUpdateThrows(userMessage, therapistResponse)
          /\ Truthy(Trim(userMessage)) /\ Truthy(Trim(therapistResponse))
         THEN Slice(<<ConversationEntry(userMessage, therapistResponse)>>
                      \o conversationHistory,
                    CONVERSATIONS_KEPT)
         ELSE conversationHistory
  /\ UNCHANGED <<transcriptHistory, recorderVars, simple>>

\* conversation screen: clearHistory
clearHistory ==
  /\ conversationHistory' = <<>>
  /\ UNCHANGED <<transcriptHistory, recorderVars, simple>>

\* ---- the transcription-only recorder ----
\* The transcription-only VoiceRecorder with the transcription-only
\* SpeechService, in the variable `simple`; its handlers in flight are
\* simple.tasks, with the same positions (pc) as those of the full recorder.
SimpleButtonDisabled == ~simple.state.hasPermission \/ simple.state.isProcessing

\* a handle nothing of the transcription-only recorder refers to any more
SimpleFreeHandles ==
  {h \in Handles : /\ h \notin simple.openCaptures
                   /\ h # simple.recording
                   /\ \A j \in DOMAIN simple.tasks : simple.tasks[j].h # h}

\* VoiceRecorder.initialize after SpeechService.initialize settled
SimpleInitPerm(j) ==
  /\ j \in DOMAIN simple.tasks
  /\ simple.tasks[j].pc = "in_perm"
  /\ simple' =
       IF simple.tasks[j].ok
         THEN [simple EXCEPT !.isInitialized = TRUE,
                             !.state.hasPermission = TRUE,
                             !.state.error = NoError,
                             !.tasks = RemoveAt(@, j)]
         ELSE [simple EXCEPT !.state.hasPermission = FALSE,
                             !.state.error = INIT_FAILED,
                             !.tasks = RemoveAt(@, j)]

\* the catch block of startRecording
SimpleStartFailed(j, error) ==
  [simple EXCEPT !.state.isRecording = FALSE,
                 !.state.error = StartError(error),
                 !.tasks = RemoveAt(@, j)]

\* tap on the record button while not recording: toggle -> startRecording.
\* The button is enabled only after the mount-time initialize succeeded, so
\* the permission request of a startRecording (pc st_perm) is never reached.
SimpleTapStart ==
  /\ ~SimpleButtonDisabled
  /\ ~simple.state.isRecording
  /\ Len(simple.tasks) < MaxTasks
  /\ \E g \in BOOLEAN :
       simple' = [simple EXCEPT
                    !.state.isRecording = TRUE,
                    !.state.error = NoError,
                    !.tasks = Append(@, IF simple.isInitialized
                                          THEN NewTask("start", "st_mode")
                                          ELSE [NewTask("start", "st_perm")
                                                  EXCEPT !.ok = g])]

\* setAudioModeAsync settled: Audio.Recording.createAsync is issued
SimpleStartMode(j) ==
  LET r == CreateRecording(simple.openCaptures, SimpleFreeHandles) IN
  /\ j \in DOMAIN simple.tasks
  /\ simple.tasks[j].pc = "st_mode"
  /\ simple' = [simple EXCEPT !.openCaptures = r.open,
                              !.tasks[j].pc = "st_create",
                              !.tasks[j].ok = r.ok,
                              !.tasks[j].h = r.h]

\* createAsync settled: this.recording = recording, or the catch blocks
SimpleStartCreate(j) ==
  /\ j \in DOMAIN simple.tasks
  /\ simple.tasks[j].pc = "st_create"
  /\ simple' =
       IF simple.tasks[j].ok
         THEN [simple EXCEPT !.recording = simple.tasks[j].h,
                             !.tasks = RemoveAt(@, j)]
         ELSE SimpleStartFailed(j, CREATE_REFUSED)

\* the catch block of stopRecording
SimpleTurnFailed(j, msg) ==
  [simple EXCEPT !.state.isRecording = FALSE, !.state.isProcessing = FALSE,
                 !.state.error = msg,
                 !.tasks = IF j = NULL THEN @ ELSE RemoveAt(@, j)]

\* tap on the record button while recording: toggle -> stopRecording
SimpleTapStop ==
  /\ ~SimpleButtonDisabled
  /\ simple.state.isRecording
  /\ IF simple.recording = NULL
       THEN simple' = SimpleTurnFailed(NULL, StageError("capture"))
       ELSE /\ Len(simple.tasks) < MaxTasks
            /\ \E r \in StopAndUnload(simple.recording, simple.openCaptures) :
                 simple' = [simple EXCEPT
                              !.state.isRecording = FALSE,
                              !.state.isProcessing = TRUE,
                              !.openCaptures = r.open,
                              !.tasks = Append(@, [NewTask("turn", "tu_stop")
                                                     EXCEPT !.ok = r.ok])]

\* stopAndUnloadAsync settled: getURI, then getStatusAsync is issued
SimpleTurnStop(j) ==
  /\ j \in DOMAIN simple.tasks
  /\ simple.tasks[j].pc = "tu_stop"
  /\ \/ /\ ~simple.tasks[j].ok \/ simple.recording = NULL
        /\ simple' = SimpleTurnFailed(j, StageError("capture"))
     \/ /\ simple.tasks[j].ok /\ simple.recording # NULL
        /\ \E uriOk \in BOOLEAN :
             simple' = IF uriOk
                         THEN [simple EXCEPT !.tasks[j].pc = "tu_status",
                                             !.tasks[j].uri = URI(simple.recording)]
                         ELSE SimpleTurnFailed(j, StageError("capture"))

\* getStatusAsync settled: this.recording = null, the recording is returned
\* and handed to transcribeWithWhisper
SimpleTurnStatus(j) ==
  /\ j \in DOMAIN simple.tasks
  /\ simple.tasks[j].pc = "tu_status"
  /\ \E r \in Outcomes(TranscriptTexts) :
       simple' = [simple EXCEPT !.recording = NULL,
                                !.tasks[j].pc = "tu_transcribe",
                                !.tasks[j].ok = r.ok,
                                !.tasks[j].v = r.v]

\* transcribeWithWhisper settled: the transcript is stored and handed to
\* onTranscriptReceived, whose exception (trim of undefined) lands in the
\* catch block
SimpleTurnTranscribe(j) ==
  LET t == simple.tasks[j]
      stored == [simple EXCEPT !.state.transcript = t.v,
                               !.state.isProcessing = FALSE,
                               !.state.error = NoError] IN
  /\ j \in DOMAIN simple.tasks
  /\ t.pc = "tu_transcribe"
  /\ simple' =
       IF t.ok
         THEN IF t.v = UNDEF
                THEN [stored EXCEPT !.state.isRecording = FALSE,
                                    !.state.error = TRIM_FAILED,
                                    !.tasks = RemoveAt(@, j)]
                ELSE [stored EXCEPT !.tasks = RemoveAt(@, j)]
         ELSE SimpleTurnFailed(j, StageError("transcribe"))

\* tap on Clear: clearTranscript
SimpleTapClear ==
  /\ Truthy(simple.state.transcript)
  /\ simple' = [simple EXCEPT !.state.transcript = "", !.state.error = NoError]

\* ---- the two recorders side by side ----
\* positions of the full recorder's handlers after the transcription stage
LaterPcs == {"tu_chat", "tu_tts", "sa_stop", "sa_unload",
             "pl_mode", "pl_create", "pl_play"}

\* a handler of the full recorder with no counterpart in the other one
FullOnly(t) == t.kind \in {"clear", "stopAudio", "replay"} \/ t.pc \in LaterPcs

\* the handlers of the full recorder that are in capture or transcription
Shared(ts) == SelectSeq(ts, LAMBDA t : ~FullOnly(t))

\* the place in simple.tasks of the counterpart of handler i
SimpleIndex(i) == Len(Shared(SubSeq(tasks, 1, i)))

\* both recorders have the same handlers in flight, at the same positions,
\* with the same outcomes of the calls they await
SameCalls ==
  /\ Len(Shared(tasks)) = Len(simple.tasks)
  /\ \A k \in DOMAIN simple.tasks :
       /\ Shared(tasks)[k].kind = simple.tasks[k].kind
       /\ Shared(tasks)[k].pc = simple.tasks[k].pc
       /\ Shared(tasks)[k].ok = simple.tasks[k].ok
       /\ Shared(tasks)[k].v = simple.tasks[k].v

\* ---- specification ----
Next ==
  \/ (\E i \in DOMAIN tasks : InitPerm(i)) /\ UNCHANGED <<screenVars, simple>>
  \/ TapStart /\ UNCHANGED <<screenVars, simple>>
  \/ (\E i \in DOMAIN tasks : StartPerm(i)) /\ UNCHANGED <<screenVars, simple>>
  \/ (\E i \in DOMAIN tasks : StartMode(i)) /\ UNCHANGED <<screenVars, simple>>
  \/ (\E i \in DOMAIN tasks : StartCreate(i)) /\ UNCHANGED <<screenVars, simple>>
  \/ TapStop /\ UNCHANGED <<screenVars, simple>>
  \/ (\E i \in DOMAIN tasks : TurnStop(i)) /\ UNCHANGED <<screenVars, simple>>
  \/ (\E i \in DOMAIN tasks : TurnStatus(i)) /\ UNCHANGED <<screenVars, simple>>
  \/ (\E i \in DOMAIN tasks : TurnTranscribe(i)) /\ UNCHANGED <<screenVars, simple>>
  \/ (\E i \in DOMAIN tasks : TurnChat(i)) /\ UNCHANGED <<screenVars, simple>>
  \/ (\E i \in DOMAIN tasks : TurnTts(i)) /\ UNCHANGED <<screenVars, simple>>
  \/ (\E i \in DOMAIN tasks : SaStop(i)) /\ UNCHANGED <<screenVars, simple>>
  \/ (\E i \in DOMAIN tasks : SaUnload(i)) /\ UNCHANGED <<screenVars, simple>>
  \/ (\E i \in DOMAIN tasks : PlayMode(i)) /\ UNCHANGED <<screenVars, simple>>
  \/ (\E i \in DOMAIN tasks : PlayCreate(i)) /\ UNCHANGED <<screenVars, simple>>
  \/ (\E i \in DOMAIN tasks : PlayPlay(i)) /\ UNCHANGED <<screenVars, simple>>
  \/ TapReplay /\ UNCHANGED <<screenVars, simple>>
  \/ TapStopAudio /\ UNCHANGED <<screenVars, simple>>
  \/ TapClear /\ UNCHANGED <<screenVars, simple>>

Spec == Init /\ [][Next]_vars

SpecTaps == InitTaps /\ [][Next]_vars

\* the recorder in a host that also calls cleanup (the screens of this
\* repository never do)
NextCleanup ==
  \/ Next
  \/ CallCleanup /\ UNCHANGED <<screenVars, simple>>
  \/ (\E i \in DOMAIN tasks : ClStop(i)) /\ UNCHANGED <<screenVars, simple>>
  \/ (\E i \in DOMAIN tasks : ClSaStop(i)) /\ UNCHANGED <<screenVars, simple>>
  \/ (\E i \in DOMAIN tasks : ClSaUnload(i)) /\ UNCHANGED <<screenVars, simple>>

SpecCleanup == InitTaps /\ [][NextCleanup]_vars

\* the handlers of the two screens, called with any argument
NextScreen ==
  \/ \E transcript \in ScreenTranscripts : handleTranscriptReceived(transcript)
  \/ clearTranscriptHistory
  \/ \E userMessage \in ScreenTranscripts, therapistResponse \in ScreenReplies :
       handleConversationUpdate(userMessage, therapistResponse)
  \/ clearHistory

SpecScreen == InitTaps /\ [][NextScreen]_vars

\* the native call that handler i awaits settles and the handler goes on
Settle(i) ==
  \/ InitPerm(i) \/ StartPerm(i) \/ StartMode(i) \/ StartCreate(i)
  \/ TurnStop(i) \/ TurnStatus(i) \/ TurnTranscribe(i) \/ TurnChat(i)
  \/ TurnTts(i) \/ SaStop(i) \/ SaUnload(i)
  \/ PlayMode(i) \/ PlayCreate(i) \/ PlayPlay(i)

\* every call of a collaborator eventually returns or fails: no handler in
\* flight waits for ever; the user need not tap
SpecLive ==
  /\ InitTaps
  /\ [][Next]_vars
  /\ \A i \in 1..MaxTasks :
       WF_vars(i \in DOMAIN tasks /\ Settle(i) /\ UNCHANGED <<screenVars, simple>>)

\* both recorders are given the same taps on record and clear, where both
\* accept them, and the same outcomes of the calls of capture and
\* transcription; the later stages of the full recorder run on their own.
\* (StartPerm has no step here: the transcription-only recorder accepts no
\* tap before permission is granted.)
NextBoth ==
  \/ (\E i \in DOMAIN tasks : InitPerm(i) /\ SimpleInitPerm(SimpleIndex(i)))
       /\ SameCalls' /\ UNCHANGED screenVars
  \/ TapStart /\ SimpleTapStart /\ SameCalls' /\ UNCHANGED screenVars
  \/ (\E i \in DOMAIN tasks : StartMode(i) /\ SimpleStartMode(SimpleIndex(i)))
       /\ SameCalls' /\ UNCHANGED screenVars
  \/ (\E i \in DOMAIN tasks : StartCreate(i) /\ SimpleStartCreate(SimpleIndex(i)))
       /\ SameCalls' /\ UNCHANGED screenVars
  \/ TapStop /\ SimpleTapStop /\ SameCalls' /\ UNCHANGED screenVars
  \/ (\E i \in DOMAIN tasks : TurnStop(i) /\ SimpleTurnStop(SimpleIndex(i)))
       /\ SameCalls' /\ UNCHANGED screenVars
  \/ (\E i \in DOMAIN tasks : TurnStatus(i) /\ SimpleTurnStatus(SimpleIndex(i)))
       /\ SameCalls' /\ UNCHANGED screenVars
  \/ (\E i \in DOMAIN tasks : TurnTranscribe(i) /\ SimpleTurnTranscribe(SimpleIndex(i)))
       /\ SameCalls' /\ UNCHANGED screenVars
  \/ TapClear /\ SimpleTapClear /\ SameCalls' /\ UNCHANGED screenVars
  \/ (\E i \in DOMAIN tasks : TurnChat(i)) /\ UNCHANGED <<screenVars, simple>>
  \/ (\E i \in DOMAIN tasks : TurnTts(i)) /\ UNCHANGED <<screenVars, simple>>
  \/ (\E i \in DOMAIN tasks : SaStop(i)) /\ UNCHANGED <<screenVars, simple>>
  \/ (\E i \in DOMAIN tasks : SaUnload(i)) /\ UNCHANGED <<screenVars, simple>>
  \/ (\E i \in DOMAIN tasks : PlayMode(i)) /\ UNCHANGED <<screenVars, simple>>
  \/ (\E i \in DOMAIN tasks : PlayCreate(i)) /\ UNCHANGED <<screenVars, simple>>
  \/ (\E i \in DOMAIN tasks : PlayPlay(i)) /\ UNCHANGED <<screenVars, simple>>

SpecBoth == InitTaps /\ [][NextBoth]_vars

\* ---- properties ----
TurnTasks == {i \in DOMAIN tasks : tasks[i].kind = "turn"}

Quiescent == tasks = <<>>

\* the call logs of the turns in flight and of the turn that just ended
TurnLogs ==
  {[uri |-> tasks[i].uri, calls |-> tasks[i].calls,
    handed |-> tasks[i].pc \notin {"tu_stop", "tu_status"}] : i \in TurnTasks}
  \cup {[uri |-> ended.uri, calls |-> ended.calls, handed |-> ended.uri # ""]}

Invoked(calls, st) == {k \in DOMAIN calls : calls[k].st = st}

FailedAt(calls, st) == \E k \in Invoked(calls, st) : calls[k].out = FAILED

StageOrder == <<"transcribe", "reply", "synthesize", "play">>

C6_NoReplyAfterFailedTranscription ==
  \A l \in TurnLogs :
    FailedAt(l.calls, "transcribe")
      => Invoked(l.calls, "reply") = {} /\ Invoked(l.calls, "synthesize") = {}

\* a turn has ended because its transcription failed
C6_Witness ==
  /\ ended.err = TRANSCRIPTION_FAILED
  /\ FailedAt(ended.calls, "transcribe")

\* C7: in a turn whose reply failed neither textToSpeech nor playAudio is
\* invoked
C7_NoSynthesisAfterFailedReply ==
  \A l \in TurnLogs :
    FailedAt(l.calls, "reply")
      => Invoked(l.calls, "synthesize") = {} /\ Invoked(l.calls, "play") = {}

\* a turn has ended because its reply failed
C7_Witness ==
  /\ ended.err = PROCESS_FAILED
  /\ FailedAt(ended.calls, "reply")

\* C8: within a turn transcribe, reply, synthesize, play are invoked in that
\* order, each after the one before has returned its result, the first on
\* the recording stopRecording returned and each next one on the result of
\* the one before
C8_SequentialChained ==
  \A l \in TurnLogs :
    /\ Len(l.calls) <= Len(StageOrder)
    /\ \A k \in DOMAIN l.calls : l.calls[k].st = StageOrder[k]
    /\ l.calls # <<>> => l.uri # "" /\ l.calls[1].in = l.uri
    /\ \A k \in DOMAIN l.calls :
         k < Len(l.calls) => /\ l.calls[k].out \notin {PENDING, FAILED}
                             /\ l.calls[k + 1].in = l.calls[k].out

\* a turn has ended after all four steps returned
C8_Witness ==
  /\ ended.err = NoError
  /\ Len(ended.calls) = 4
  /\ ended.calls[4].out = "played"

\* C9: no retry: in a turn every stage is invoked at most once, the recording
\* stopRecording returned is handed to transcription exactly once, and a
\* failed call is the last call of its turn
C9_NoRetry ==
  \A l \in TurnLogs :
    /\ \A k1, k2 \in DOMAIN l.calls : l.calls[k1].st = l.calls[k2].st => k1 = k2
    /\ l.handed =>
         Cardinality({k \in Invoked(l.calls, "transcribe") : l.calls[k].in = l.uri}) = 1
    /\ \A k \in DOMAIN l.calls : l.calls[k].out = FAILED => k = Len(l.calls)

\* a turn has ended in error after its recording was handed to transcription
C9_Witness ==
  /\ ended.err # NoError
  /\ ended.uri # ""
  /\ ended.calls # <<>>
  /\ ended.calls[Len(ended.calls)].out = FAILED

\* C2: at most one playback is active: every loaded sound is the service's
\* playbackObject or one a playAudio call has created and not yet stored,
\* and no two sounds are loaded together
C2_OnePlayback ==
  /\ \A s \in sounds :
       s = playbackObject \/ \E i \in DOMAIN tasks : tasks[i].snd = s
  /\ Cardinality(sounds) <= 1

\* C3: while a turn (stopRecording handler) is in flight no recording is started
C3_NoConcurrentTurn ==
  [][TurnTasks # {} => ~TapStart]_vars

\* C4: once a turn has ended in Errored and nothing is in flight, no capture
\* is open that the service cannot release: a recording can be opened again
C4_NoLockout ==
  (Quiescent /\ PipelineState = "Errored")
    => \A h \in openCaptures : h = recording

\* C5: when a turn has ended in error the service holds neither a recording
\* nor a playbackObject
C5_ErroredReleasesAll ==
  ended.err # NoError => recording = NULL /\ playbackObject = NULL

\* C10: clearConversation leaves the pipeline Idle with transcript, reply
\* text and reply audio reference cleared
C10_ResetToIdle ==
  [][TapClear => /\ PipelineState' = "Idle"
                 /\ state'.transcript = ""
                 /\ state'.therapyResponse = NoResponse]_vars

\* C11: when clearConversation has run and its stop request has completed
\* (here: within clearConversation, the service holding no playbackObject),
\* no sound a playAudio call created before the reset is still loaded
C11_ResetStopsPlayback ==
  [][(TapClear /\ playbackObject = NULL) => sounds' = {}]_vars

C13_PermissionAndBusyDistinct ==
  [][\A i \in DOMAIN tasks :
       /\ (StartPerm(i) /\ ~tasks[i].ok)
            => state'.error # StartError(CREATE_REFUSED)
       /\ (StartCreate(i) /\ ~tasks[i].ok /\ openCaptures # {})
            => state'.error # StartError(INIT_FAILED)]_vars

\* C14: a stopRecording called while the service holds no open recording is
\* rejected with an error: it returns no recording, and none of
\* transcription, reply, synthesis and playback is invoked
C14_StopWithoutRecordingRejected ==
  [][/\ (TapStop /\ recording \notin openCaptures)
          => \/ /\ tasks' = tasks
                /\ ended' = [NoTurn EXCEPT !.err = RECORDING_FAILED]
                /\ state'.error = RECORDING_FAILED
             \/ /\ tasks' = Append(tasks, tasks'[Len(tasks')])
                /\ tasks'[Len(tasks')].pc = "tu_stop"
                /\ ~tasks'[Len(tasks')].ok
     /\ \A i \in DOMAIN tasks :
          (TurnStop(i) /\ ~tasks[i].ok)
            => /\ tasks' = RemoveAt(tasks, i)
               /\ ended' = [NoTurn EXCEPT !.err = RECORDING_FAILED]
               /\ state'.error = RECORDING_FAILED]_vars

\* the second tap of a session was a stop while the start was still in
\* flight, and it has been rejected
C14_Witness ==
  /\ taps = MaxTaps - 2
  /\ ended = [NoTurn EXCEPT !.err = RECORDING_FAILED]
  /\ state.error = RECORDING_FAILED
  /\ recording = NULL
  /\ TurnTasks = {}

\* the stage at which the turn that just ended had failed
FailedStage == IF ended.calls = <<>> THEN "capture"
               ELSE ended.calls[Len(ended.calls)].st

\* C15: a turn that fails surfaces one message, and the message identifies
\* the stage that failed: no other stage's failure surfaces the same message
C15_MessageIdentifiesStage ==
  ended.err # NoError
    => /\ state.error = ended.err
       /\ ended.err = StageError(FailedStage)
       /\ \A st \in Stages : StageError(st) = ended.err => st = FailedStage

\* C16: a turn in which stopRecording, transcription, reply, synthesis and
\* playback all succeed ends in Idle with the transcript the transcription
\* returned, the reply text the reply returned, the audio reference the
\* synthesis returned and no error, playback invoked once with that reference
C16_SuccessfulTurn ==
  (ended.err = NoError /\ ended.calls # <<>>)
    => /\ PipelineState = "Idle"
       /\ state.transcript = ended.calls[1].out
       /\ state.therapyResponse.text = ended.calls[2].out
       /\ state.therapyResponse.audioUri = ended.calls[3].out
       /\ state.error = NoError
       /\ Cardinality(Invoked(ended.calls, "play")) = 1
       /\ ended.calls[4].in = ended.calls[3].out

\* C17: a turn whose transcription request fails (a non-2xx response) ends
\* in Errored with the message of the transcription stage and of no other
\* stage, and with no reply stored
C17_TranscriptionFailureEndsErrored ==
  (ended.err # NoError /\ FailedAt(ended.calls, "transcribe"))
    => /\ PipelineState = "Errored"
       /\ state.error = TRANSCRIPTION_FAILED
       /\ \A st \in Stages \ {"transcribe"} : StageError(st) # state.error
       /\ state.therapyResponse = NoResponse

\* C18: when the transcription endpoint answers with a failure status or
\* with a payload that carries no text, the transcription stage fails with
\* TRANSCRIPTION_FAILED: no transcript is stored and the reply is not invoked
C18_MalformedTranscriptionFails ==
  [][\A i \in DOMAIN tasks :
       (TurnTranscribe(i) /\ (~tasks[i].ok \/ tasks[i].v = UNDEF))
         => /\ ended'.err = TRANSCRIPTION_FAILED
            /\ Invoked(ended'.calls, "reply") = {}
            /\ state'.transcript = state.transcript
            /\ tasks' = RemoveAt(tasks, i)]_vars

\* C19: when a turn has ended with an error the session is reset: the
\* pipeline is Errored with transcript, reply text and reply audio reference
\* empty, whichever stage failed
C19_ErrorResetsSession ==
  ended.err # NoError
    => /\ PipelineState = "Errored"
       /\ ~Truthy(state.transcript)
       /\ state.therapyResponse = NoResponse

\* the moves of the pipeline state a turn may make: along the stages in
\* order (a turn may start from Idle or from Errored), or from a stage to
\* Errored
TurnMove(p, q) ==
  \/ p = q
  \/ <<p, q>> \in {<<"Idle", "Recording">>, <<"Errored", "Recording">>,
                   <<"Recording", "Transcribing">>,
                   <<"Transcribing", "GeneratingReply">>,
                   <<"GeneratingReply", "Speaking">>,
                   <<"Speaking", "Idle">>}
  \/ p \in {"Recording", "Transcribing", "GeneratingReply", "Speaking"}
       /\ q = "Errored"

\* a step of startRecording or of stopRecording (a turn)
TurnStep ==
  \/ TapStart
  \/ TapStop
  \/ \E i \in DOMAIN tasks :
       /\ tasks[i].kind \in {"start", "turn"}
       /\ \/ StartPerm(i) \/ StartMode(i) \/ StartCreate(i)
          \/ TurnStop(i) \/ TurnStatus(i) \/ TurnTranscribe(i)
          \/ TurnChat(i) \/ TurnTts(i)
          \/ SaStop(i) \/ SaUnload(i)
          \/ PlayMode(i) \/ PlayCreate(i) \/ PlayPlay(i)

\* C20: the steps of a turn move the pipeline state only along Idle,
\* Recording, Transcribing, GeneratingReply, Speaking, Idle in that order,
\* or from one of the four stages to Errored
C20_StateOrder ==
  [][TurnStep => TurnMove(PipelineState, PipelineState')]_vars

\* a step in which a stop-playback request of the user returns
StopAudioDone ==
  \/ TapStopAudio /\ tasks' = tasks
  \/ \E i \in DOMAIN tasks :
       /\ tasks[i].kind = "stopAudio"
       /\ SaStop(i) \/ SaUnload(i)
       /\ tasks' = RemoveAt(tasks, i)

\* C21: stopping playback never surfaces an error; when no sound is loaded
\* it changes neither the service nor the pipeline state; and when it has
\* returned nothing is playing, so that a second call changes nothing
C21_StopAudioSafeIdempotent ==
  [][/\ (TapStopAudio /\ sounds = {})
          => /\ UNCHANGED <<svcVars, sounds>>
             /\ PipelineState' = PipelineState
     /\ StopAudioDone
          => /\ state'.error = state.error
             /\ sounds' = {}]_vars

\* C22: replayResponse invokes playAudio only with the audio reference of
\* the stored reply, a reference only a completed synthesis stores and that
\* startRecording and clearConversation remove; it invokes nothing while a
\* recording started after that reply is open
C22_ReplayOnlyStoredReply ==
  [][/\ TapReplay
          => /\ state.therapyResponse # NoResponse
             /\ Truthy(state.therapyResponse.audioUri)
             /\ tasks'[Len(tasks')].kind = "replay"
             /\ tasks'[Len(tasks')].audio = state.therapyResponse.audioUri
             /\ ~state.isRecording
     /\ (state'.therapyResponse # state.therapyResponse
            /\ state'.therapyResponse # NoResponse)
          => \E i \in DOMAIN tasks :
               /\ TurnTts(i) /\ tasks[i].ok
               /\ state'.therapyResponse.audioUri = tasks[i].v
     /\ (TapStart \/ TapClear) => state'.therapyResponse = NoResponse]_vars

\* a call of cleanup returns in this step
CleanupReturned ==
  \/ CallCleanup /\ tasks' = tasks
  \/ \E i \in DOMAIN tasks :
       /\ tasks[i].kind = "cleanup"
       /\ ClStop(i) \/ ClSaStop(i) \/ ClSaUnload(i)
       /\ tasks' = RemoveAt(tasks, i)

\* C30: when cleanup returns, the service holds no recording handle and no
\* playback handle and is not initialized, also when stopping the open
\* recording failed.
C30_CleanupReleasesEverything ==
  [][CleanupReturned
       => /\ recording' = NULL
          /\ playbackObject' = NULL
          /\ ~isInitialized']_vars
\* a step of playback, stop-playback, replay or reset
PlaybackStep ==
  \/ TapReplay \/ TapStopAudio \/ TapClear
  \/ \E i \in DOMAIN tasks :
       SaStop(i) \/ SaUnload(i) \/ PlayMode(i) \/ PlayCreate(i) \/ PlayPlay(i)

\* C23: an open capture is closed only by stopRecording (the tap that ends
\* the turn) or by cleanup; no other step, and no passing of time, closes
\* it; playback, stop-playback, replay and reset leave the open captures and
\* the handle the service holds unchanged.
C23_RecordingOpenUntilStopped ==
  [][/\ (openCaptures \ openCaptures' # {}) => (TapStop \/ CallCleanup)
     /\ PlaybackStep => UNCHANGED <<openCaptures, recording>>]_vars

\* C23: stop-playback (of a reset) has unloaded the sound while a capture is open
C23_Witness ==
  /\ openCaptures # {}
  /\ \E i \in DOMAIN tasks : tasks[i].kind = "clear" /\ tasks[i].pc = "sa_unload"
\* C26: whenever no handler is in flight, the recorder shows isRecording
\* exactly when the service holds a recording handle.
C26_IsRecordingMirrorsHandle ==
  Quiescent => (state.isRecording <=> recording # NULL)
\* a handler issues Audio.requestPermissionsAsync in this step
PermissionRequested ==
  /\ Len(tasks') > Len(tasks)
  /\ tasks'[Len(tasks')].pc \in {"in_perm", "st_perm"}

\* C29: startRecording requests the permission exactly when the service is
\* not initialized (nothing else requests it after mount), and the service
\* stays initialized until cleanup resets it.
C29_InitializeIdempotent ==
  [][/\ TapStart => (PermissionRequested <=> ~isInitialized)
     /\ PermissionRequested => TapStart
     /\ (isInitialized /\ ~isInitialized')
          => (CallCleanup \/ \E i \in DOMAIN tasks : tasks[i].kind = "cleanup")]_vars

\* C29: a recording is started without a request, after a turn that played
C29_Witness ==
  /\ isInitialized
  /\ playbackObject # NULL
  /\ \E i \in DOMAIN tasks : tasks[i].kind = "start" /\ tasks[i].pc = "st_mode"
\* C27: a turn that ends without error has called onConversationUpdate
\* once; the call is made only after playback returned, with that turn's
\* transcript and reply text; a turn that ends in error has not made it.
C27_NotifiedOncePerSuccessfulTurn ==
  /\ (ended.err = NoError /\ ended.calls # <<>>) => ended.notified = 1
  /\ ended.notified = 1
       => /\ Len(ended.calls) = 4
          /\ ended.calls[4].out = "played"
          /\ ended.user = ended.calls[1].out
          /\ ended.reply = ended.calls[2].out
  /\ ended.err # NoError => ended.notified = 0
\* list new is list old with x put first and cut to cap entries
Pushed(old, new, x, cap) ==
  /\ Len(new) = (IF Len(old) < cap THEN Len(old) + 1 ELSE cap)
  /\ new[1] = x
  /\ \A k \in 2..Len(new) : new[k] = old[k - 1]

\* no text: empty or whitespace only
Blank(s) == Trim(s) = ""

\* C28: after every step the transcript history holds at most 10 and the
\* conversation history at most 5 entries, none with a blank text; a new
\* entry is put first and the oldest dropped beyond the cap; a blank text adds
\* nothing; clearHistory empties the list.
C28_HistoryBoundedNewestFirst ==
  [][/\ Len(transcriptHistory') <= 10
     /\ Len(conversationHistory') <= 5
     /\ \A k \in DOMAIN transcriptHistory' : ~Blank(transcriptHistory'[k])
     /\ \A k \in DOMAIN conversationHistory' :
          /\ ~Blank(conversationHistory'[k].userMessage)
          /\ ~Blank(conversationHistory'[k].therapistResponse)
     /\ \A t \in ScreenTranscripts \ {UNDEF} :
          handleTranscriptReceived(t)
            => IF Blank(t) THEN transcriptHistory' = transcriptHistory
               ELSE Pushed(transcriptHistory, transcriptHistory', t, 10)
     /\ \A u \in ScreenTranscripts \ {UNDEF}, r \in ScreenReplies :
          handleConversationUpdate(u, r)
            => IF Blank(u) \/ Blank(r)
                 THEN conversationHistory' = conversationHistory
                 ELSE Pushed(conversationHistory, conversationHistory',
                             ConversationEntry(u, r), 5)
     /\ clearTranscriptHistory => transcriptHistory' = <<>>
     /\ clearHistory => conversationHistory' = <<>>]_vars

\* C28: both lists are full, each with a newest entry unlike its oldest
C28_Witness ==
  /\ Len(transcriptHistory) = 10
  /\ transcriptHistory[1] # transcriptHistory[10]
  /\ Len(conversationHistory) = 5
  /\ conversationHistory[1] # conversationHistory[5]
LaterErrors == {PROCESS_FAILED, PLAY_FAILED, TRIM_FAILED}

\* C24: given the same taps and the same outcomes of capture and
\* transcription, the transcription-only recorder shows the same isRecording,
\* isProcessing, transcript and error as the full recorder, whenever the full
\* recorder is not in a later stage (error: unless a later stage set it).
C24_TranscriptionOnlyIsRestriction ==
  (\A i \in DOMAIN tasks : tasks[i].pc \notin LaterPcs)
    => /\ simple.state.isRecording = state.isRecording
       /\ simple.state.isProcessing = state.isProcessing
       /\ simple.state.transcript = state.transcript
       /\ state.error \notin LaterErrors => simple.state.error = state.error
====
